---- MODULE Spec2Model ----
(***************************************************************************)
(* Content generation client of wissen-handeln.com.                        *)
(*                                                                         *)
(*   AIContentGenerator  src/src/lib/aiContentGenerator.ts                 *)
(*   RateLimiter         src/unnamed/part_006 (lines 573-610), the same    *)
(*                       class as docs/architecture/                       *)
(*                       deployment-architecture.md (lines 1215-1253)      *)
(*   ClaudeClient        src/unnamed/part_006 (lines 470-522), with its    *)
(*                       ResponseCache (lines 619-657)                     *)
(*                                                                         *)
(* The runtime is a single-threaded event loop: the code between two       *)
(* awaits runs as one atomic step, and calls interleave only at an await.  *)
(* Time is the value of Date.now(), counted in ticks.  Token arithmetic is *)
(* exact (tokens are kept as sixtieths of a token).                        *)
(***************************************************************************)
EXTENDS Integers, Sequences, FiniteSets, TLC

(***************************************************************************)
(* Bounds of the model.                                                    *)
(***************************************************************************)
MaxTime == 2          \* last tick of the clock in the client specification
MaxTTL == 1           \* largest configured cacheTTL, in ticks
MaxCalls == 2         \* generateContent calls made in a behaviour
MaxClock == 31        \* last tick of the clock in the limiter specification
MaxRate == 2          \* largest configured requestsPerMinute
MaxAcquires == 5      \* acquire calls made in a behaviour
MaxRetries == 3       \* largest maxRetries passed to generateWithRetry
MaxWait == 8          \* last tick of the clock in the retry specification

\* the calls that can be in flight at once, each in a slot
Callers == {1, 2}

(***************************************************************************)
(* JavaScript values.  undefined is a marker string; a falsy maxTokens     *)
(* (absent or 0) is 0.                                                     *)
(***************************************************************************)
Undefined == "<undefined>"

Falsy == {Undefined, ""}

\* a || b on strings
OrElse(a, b) == IF a \in Falsy THEN b ELSE a

\* ${v} inside a template literal
Str(v) == IF v = Undefined THEN "undefined" ELSE v

(***************************************************************************)
(* ContentGenerationOptions, as the callers of the client specification    *)
(* build them.                                                             *)
(***************************************************************************)
Topics == {"Vereinsdigitalisierung", "KI"}
TokenBudgets == {0, 1000}

Options ==
  { [topic |-> tp, type |-> "blog-post", tone |-> Undefined,
     language |-> Undefined, maxTokens |-> mt]
      : tp \in Topics, mt \in TokenBudgets }

(***************************************************************************)
(* What the upstream completion request can settle with.  A text is the    *)
(* string in choices[0].message.content: form says how it is written,      *)
(* value what a JSON reading of it yields.                                 *)
(***************************************************************************)
FullObject ==
  [t |-> "object", title |-> "Titel", content |-> "# Inhalt",
   excerpt |-> "Teaser", keywords |-> <<"k1", "k2", "k3", "k4", "k5">>]

PartialObject ==
  [t |-> "object", title |-> "Titel", content |-> "# Inhalt",
   excerpt |-> Undefined, keywords |-> Undefined]

NullValue ==
  [t |-> "null", title |-> Undefined, content |-> Undefined,
   excerpt |-> Undefined, keywords |-> Undefined]

Texts ==
  { [form |-> "missing", value |-> NullValue],      \* no choice / null content
    [form |-> "empty", value |-> NullValue],        \* ""
    [form |-> "prose", value |-> NullValue],        \* not JSON at all
    [form |-> "json", value |-> NullValue],         \* the text null
    [form |-> "json", value |-> FullObject],
    [form |-> "json", value |-> PartialObject],
    [form |-> "wrapped", value |-> FullObject] }    \* JSON inside prose

Completions ==
  { [settled |-> "rejected", status |-> s, text |-> [form |-> "missing", value |-> NullValue]]
      : s \in {429, 500} }
  \cup
  { [settled |-> "resolved", status |-> 200, text |-> x] : x \in Texts }

VARIABLES
  openai,        \* TRUE iff the constructor created the OpenAI client
  cacheTTL,      \* this.cacheTTL
  cache,         \* this.cache: a Map, its entries in insertion order
  now,           \* Date.now()
  pc,            \* per caller: "idle", or "awaiting" the upstream call
  call,          \* per caller: the generateContent call in flight
  calls,         \* generateContent calls made so far
  upstreamCalls, \* upstream completion requests issued so far
  last,          \* the generateContent call that returned in the step just taken
  ref,           \* one returned call, chosen as the first of a pair
  stats,         \* what getCacheStats returned, if it was the latest operation
  tokens,        \* RateLimiter.tokens, in sixtieths of a token
  maxTokens,     \* RateLimiter.maxTokens
  lastRefill,    \* RateLimiter.lastRefill
  acq,           \* per caller: "idle", or "sleeping" inside acquire
  acqCall,       \* per caller: the acquire call in flight
  acquires,      \* acquire calls made so far
  burst,         \* acquire calls made back to back since the bucket was full
  burstAt,       \* Date.now() of that burst
  lastAcq,       \* the acquire call that returned in the step just taken
  claude,        \* ClaudeClient: its ResponseCache and its complete calls
  manager,       \* ContentManager: its blogPosts and its calls in flight
  retry,         \* generateWithRetry: the call in flight
  requests       \* two requests and the cache keys computed for them

clientVars ==
  <<openai, cacheTTL, cache, pc, call, calls, upstreamCalls, last, ref, stats>>

limiterVars ==
  <<tokens, maxTokens, lastRefill, acq, acqCall, acquires, burst, burstAt, lastAcq>>

vars == <<clientVars, limiterVars, claude, manager, retry, requests, now>>

(***************************************************************************)
(* AIContentGenerator: pure helpers.  The German texts are written without *)
(* umlauts.                                                                *)
(***************************************************************************)
NoContent ==
  [title |-> Undefined, content |-> Undefined, excerpt |-> Undefined,
   keywords |-> <<>>, generatedAt |-> -1]

NoKey == <<Undefined, Undefined, Undefined, Undefined>>

NoEntry == [key |-> NoKey, content |-> NoContent, timestamp |-> -1]

(***************************************************************************)
(* Map<string, {content, timestamp}>: a sequence of entries, one per key,  *)
(* in insertion order.                                                     *)
(***************************************************************************)
MapKeys(m) == {m[i].key : i \in 1..Len(m)}

MapHas(m, k) == k \in MapKeys(m)

MapGet(m, k) ==
  IF MapHas(m, k) THEN m[CHOOSE i \in 1..Len(m) : m[i].key = k] ELSE NoEntry

\* set keeps the position of a key that is present and appends a new one
MapSet(m, k, content, t) ==
  LET e == [key |-> k, content |-> content, timestamp |-> t]
  IN  IF MapHas(m, k)
        THEN [i \in 1..Len(m) |-> IF m[i].key = k THEN e ELSE m[i]]
        ELSE Append(m, e)

MapDelete(m, k) == SelectSeq(m, LAMBDA e : e.key # k)

NoOptions ==
  [topic |-> Undefined, type |-> Undefined, tone |-> Undefined,
   language |-> Undefined, maxTokens |-> 0]

getCacheKey_withBudget(o) ==
  <<o.topic, o.type, OrElse(o.tone, "professional"), OrElse(o.language, "de"),
    o.maxTokens>>

\* JSON.stringify of the four normalised fields, in their fixed order
getCacheKey(o) ==
  <<o.topic, o.type, OrElse(o.tone, "professional"), OrElse(o.language, "de")>>

isExpired_never(entry, t) == FALSE

isExpired_inclusive(entry, t) == t - entry.timestamp >= cacheTTL

isExpired(entry, t) == t - entry.timestamp > cacheTTL

getFallbackContent_dated(o, t) ==
  [title |-> Str(o.topic) \o (IF t > 0 THEN " - Beratung" ELSE " - Professionelle Beratung"),
   content |-> "# " \o Str(o.topic),
   excerpt |-> "Professionelle Beratung fuer " \o Str(o.topic),
   keywords |-> <<"Beratung", "Strategie", "Umsetzung", o.topic, "Expertise">>,
   generatedAt |-> t]

getFallbackContent_untitled(o, t) ==
  [title |-> "Professionelle Beratung",
   content |-> "Wir unterstuetzen Sie dabei, Ihr Wissen in konkretes Handeln umzusetzen.",
   excerpt |-> "Professionelle Beratung fuer " \o Str(o.topic),
   keywords |-> <<"Beratung", "Strategie", "Umsetzung", o.topic, "Expertise">>,
   generatedAt |-> t]

\* getFallbackContent(options), called at time t
getFallbackContent(o, t) ==
  IF OrElse(o.language, "de") = "de"
    THEN [title |-> Str(o.topic) \o " - Professionelle Beratung",
          content |-> "# " \o Str(o.topic)
                      \o "\n\nWir unterstuetzen Sie dabei, Ihr Wissen in konkretes Handeln umzusetzen."
                      \o "\n\n## Unsere Expertise"
                      \o "\n\nMit langjaehriger Erfahrung in der Beratung helfen wir Ihnen, massgeschneiderte Loesungen fuer Ihre Herausforderungen zu entwickeln."
                      \o "\n\n## Ihr Nutzen"
                      \o "\n\n- Praxisorientierte Strategien\n- Messbare Ergebnisse\n- Nachhaltige Veraenderung"
                      \o "\n\nKontaktieren Sie uns fuer ein unverbindliches Gespraech.",
          excerpt |-> "Professionelle Beratung fuer " \o Str(o.topic)
                      \o " - Wir setzen Wissen in Handeln um.",
          keywords |-> <<"Beratung", "Strategie", "Umsetzung", o.topic, "Expertise">>,
          generatedAt |-> t]
    ELSE [title |-> Str(o.topic) \o " - Professional Consulting",
          content |-> "# " \o Str(o.topic)
                      \o "\n\nWe support you in transforming knowledge into action."
                      \o "\n\n## Our Expertise"
                      \o "\n\nWith years of experience in consulting, we help you develop tailored solutions for your challenges."
                      \o "\n\n## Your Benefits"
                      \o "\n\n- Practice-oriented strategies\n- Measurable results\n- Sustainable change"
                      \o "\n\nContact us for a no-obligation consultation.",
          excerpt |-> "Professional consulting for " \o Str(o.topic)
                      \o " - We turn knowledge into action.",
          keywords |-> <<"Consulting", "Strategy", "Implementation", o.topic, "Expertise">>,
          generatedAt |-> t]

OrDefault_falsy(a, b) == IF a \in Falsy THEN b ELSE a

\* default of a destructured field: it applies to undefined only
OrDefault(a, b) == IF a = Undefined THEN b ELSE a

\* the object literal prompts of getSystemPrompt, for one language
prompts(language) ==
  [t \in {"blog-post", "service-description", "about-section", "case-study"} |->
     CASE t = "blog-post" ->
            IF language = "de"
              THEN "Du bist ein erfahrener Content-Autor, der informative und ansprechende Blog-Beitraege schreibt. Erstelle gut strukturierte Artikel mit klaren Ueberschriften, praktischen Beispielen und handlungsorientierten Schlussfolgerungen."
              ELSE "You are an experienced content writer who creates informative and engaging blog posts. Create well-structured articles with clear headings, practical examples, and actionable conclusions."
       [] t = "service-description" ->
            IF language = "de"
              THEN "Du bist ein Marketing-Experte, der ueberzeugende Leistungsbeschreibungen erstellt. Fokussiere dich auf Kundennutzen, konkrete Ergebnisse und klare Handlungsaufforderungen."
              ELSE "You are a marketing expert who creates compelling service descriptions. Focus on customer benefits, concrete results, and clear calls to action."
       [] t = "about-section" ->
            IF language = "de"
              THEN "Du bist ein Unternehmenskommunikations-Spezialist, der authentische und vertrauenswuerdige \"Ueber uns\"-Texte verfasst. Betone Expertise, Werte und den einzigartigen Ansatz."
              ELSE "You are a corporate communications specialist who writes authentic and trustworthy \"About\" content. Emphasize expertise, values, and unique approach."
       [] t = "case-study" ->
            IF language = "de"
              THEN "Du bist ein Business-Analyst, der ueberzeugende Fallstudien erstellt. Strukturiere die Inhalte nach: Herausforderung, Loesung, Ergebnis. Verwende konkrete Zahlen und Fakten."
              ELSE "You are a business analyst who creates compelling case studies. Structure content as: Challenge, Solution, Result. Use concrete numbers and facts."]

\* getSystemPrompt(type, language): prompts[type] || prompts['blog-post']
getSystemPrompt(type, language) ==
  IF type \in DOMAIN prompts(language)
    THEN prompts(language)[type]
    ELSE prompts(language)["blog-post"]

\* getUserPrompt(options)
getUserPrompt(o) ==
  LET topic == o.topic
      type == o.type
      tone == OrDefault(o.tone, "professional")
      language == OrDefault(o.language, "de")
  IN  IF language = "de"
        THEN "Erstelle einen "
             \o (IF type = "blog-post" THEN "Blog-Beitrag"
                 ELSE IF type = "service-description" THEN "Leistungsbeschreibung"
                 ELSE IF type = "about-section" THEN "Ueber-uns-Text"
                 ELSE "Fallstudie")
             \o " zum Thema: \"" \o Str(topic) \o "\"."
             \o "\n\nTon: "
             \o (IF tone = "professional" THEN "professionell"
                 ELSE IF tone = "conversational" THEN "gespraechig"
                 ELSE "akademisch")
             \o "\n\nFormat:\n- Gib einen praegnanten Titel (max. 60 Zeichen)"
             \o "\n- Schreibe einen ansprechenden Haupttext (300-500 Woerter)"
             \o "\n- Erstelle einen kurzen Teaser (max. 150 Zeichen)"
             \o "\n- Liste 5 relevante Keywords auf"
             \o "\n\nAntworte im JSON-Format:\n{"
             \o "\n  \"title\": \"Der Titel\","
             \o "\n  \"content\": \"Der Hauptinhalt mit Markdown-Formatierung\","
             \o "\n  \"excerpt\": \"Der Teaser-Text\","
             \o "\n  \"keywords\": [\"keyword1\", \"keyword2\", \"keyword3\", \"keyword4\", \"keyword5\"]"
             \o "\n}"
        ELSE "Create a " \o Str(type) \o " about: \"" \o Str(topic) \o "\"."
             \o "\n\nTone: " \o Str(tone)
             \o "\n\nFormat:\n- Provide a concise title (max. 60 characters)"
             \o "\n- Write engaging main content (300-500 words)"
             \o "\n- Create a short excerpt (max. 150 characters)"
             \o "\n- List 5 relevant keywords"
             \o "\n\nRespond in JSON format:\n{"
             \o "\n  \"title\": \"The Title\","
             \o "\n  \"content\": \"The main content with Markdown formatting\","
             \o "\n  \"excerpt\": \"The excerpt text\","
             \o "\n  \"keywords\": [\"keyword1\", \"keyword2\", \"keyword3\", \"keyword4\", \"keyword5\"]"
             \o "\n}"

\* the argument of chat.completions.create (lines 141-156)
NoRequest == [system |-> Undefined, user |-> Undefined, max_tokens |-> 0]

completionRequest(o) ==
  [system |-> getSystemPrompt(o.type, OrElse(o.language, "de")),
   user |-> getUserPrompt(o),
   max_tokens |-> IF o.maxTokens = 0 THEN 1500 ELSE o.maxTokens]

\* JSON.parse(text): throws unless the whole text is JSON
JSONparse(text) ==
  IF text.form = "json"
    THEN [threw |-> FALSE, value |-> text.value]
    ELSE [threw |-> TRUE, value |-> NullValue]

\* The try block after the await (lines 158-170): the content built from the
\* completion, or threw = TRUE when a statement of the block throws.
parseCompletion(completion, t) ==
  IF completion.settled = "rejected" THEN [threw |-> TRUE, content |-> NoContent]
  ELSE IF completion.text.form \in {"missing", "empty"}
    THEN [threw |-> TRUE, content |-> NoContent]          \* 'No content generated'
  ELSE IF JSONparse(completion.text).threw
    THEN [threw |-> TRUE, content |-> NoContent]          \* SyntaxError
  ELSE IF JSONparse(completion.text).value.t = "null"
    THEN [threw |-> TRUE, content |-> NoContent]          \* TypeError: parsed.title
  ELSE LET parsed == JSONparse(completion.text).value
       IN  [threw |-> FALSE,
            content |-> [title |-> parsed.title, content |-> parsed.content,
                         excerpt |-> parsed.excerpt,
                         keywords |-> parsed.keywords,
                         generatedAt |-> t]]

(***************************************************************************)
(* AIContentGenerator: state and operations.                               *)
(***************************************************************************)
\* a call in flight: its argument, and for the properties the time it was
\* made, the entry the map held for its key at that time, the upstream
\* requests it has issued, whether it was made after the reference call for
\* the key of that call (afterRef) or for any key (nearRef), whether another
\* call for the same key awaited the upstream call at that time (overlapped),
\* and the request it sent upstream
NoCall ==
  [options |-> NoOptions, startedAt |-> -1, entry |-> NoEntry,
   attempts |-> 0, afterRef |-> FALSE, nearRef |-> FALSE, overlapped |-> FALSE,
   request |-> NoRequest]

NoCompletion ==
  [settled |-> "none", status |-> 0, text |-> [form |-> "missing", value |-> NullValue]]

\* a returned call: the call, what its upstream request settled with, the
\* value it resolved with and the way it took: "hit", "nokey", "upstream",
\* "fallback", or "threw" for a call that rejects
NoReturn ==
  [caller |-> 0, call |-> NoCall, completion |-> NoCompletion,
   result |-> NoContent, path |-> "none"]

NoRef ==
  [set |-> FALSE, key |-> NoKey, options |-> NoOptions, result |-> NoContent,
   path |-> "none", at |-> -1, clean |-> FALSE]

NoStats == [size |-> -1, keys |-> <<>>]

\* constructor: the OpenAI client exists iff OPENAI_API_KEY is set; cacheTTL is
\* CONTENT_CACHE_TTL seconds; the cache is empty
InitClient ==
  /\ openai \in BOOLEAN
  /\ cacheTTL \in 1..MaxTTL
  /\ cache = <<>>
  /\ pc = [c \in Callers |-> "idle"]
  /\ call = [c \in Callers |-> NoCall]
  /\ calls = 0
  /\ upstreamCalls = 0
  /\ last = NoReturn
  /\ ref = NoRef
  /\ stats = NoStats

hasClient_always == TRUE

\* if (!this.openai): the test that sends a call to the fallback
hasClient == openai

getCachedContent_refreshes(key) ==
  LET cached == MapGet(cache, key)
  IN  IF ~MapHas(cache, key)
        THEN [found |-> FALSE, content |-> NoContent, map |-> cache]
      ELSE IF isExpired(cached, now)
        THEN [found |-> FALSE, content |-> NoContent, map |-> MapDelete(cache, key)]
      ELSE [found |-> TRUE, content |-> cached.content,
            map |-> MapSet(cache, key, cached.content, now)]

\* getCachedContent(key): the content found (found = FALSE for null) and the
\* map as the lookup leaves it
getCachedContent(key) ==
  LET cached == MapGet(cache, key)
  IN  IF ~MapHas(cache, key)
        THEN [found |-> FALSE, content |-> NoContent, map |-> cache]
      ELSE IF isExpired(cached, now)
        THEN [found |-> FALSE, content |-> NoContent, map |-> MapDelete(cache, key)]
      ELSE [found |-> TRUE, content |-> cached.content, map |-> cache]

setCachedContent_dropped(key, content) == cache

setCachedContent_stale(key, content) == MapSet(cache, key, content, now - cacheTTL - 1)

setCachedContent_keepsFirst(key, content) ==
  IF MapHas(cache, key) THEN cache ELSE MapSet(cache, key, content, now)

\* setCachedContent(key, content): the map after the set
setCachedContent(key, content) == MapSet(cache, key, content, now)

\* the entry of key differs between the two maps
Changed(m1, m2, k) ==
  \/ MapHas(m1, k) # MapHas(m2, k)
  \/ MapHas(m1, k) /\ MapHas(m2, k) /\ MapGet(m1, k) # MapGet(m2, k)

\* the reference call stays, and a write to its key is noted
RefNoted ==
  IF ref.set /\ Changed(cache, cache', ref.key)
    THEN [ref EXCEPT !.clean = FALSE]
    ELSE ref

\* a call that returns in this step is made the reference call if mark says
\* so and there is none yet
RefChosen(marks) ==
  \E mark \in marks :
    ref' = IF mark /\ ~ref.set /\ last'.caller # 0
             THEN [set |-> TRUE, key |-> getCacheKey(last'.call.options),
                   options |-> last'.call.options,
                   result |-> last'.result, path |-> last'.path, at |-> now,
                   clean |-> TRUE]
             ELSE RefNoted

\* the call cl of caller c, whose upstream request settled with k, returns
\* content by way of p
Returns(c, cl, k, content, p) ==
  /\ pc' = [pc EXCEPT ![c] = "idle"]
  /\ call' = [call EXCEPT ![c] = NoCall]
  /\ last' = [caller |-> c, call |-> cl, completion |-> k, result |-> content,
              path |-> p]

catchBlock_rethrows(c, k) ==
  /\ Returns(c, call[c], k, NoContent, "threw")
  /\ UNCHANGED <<cache, upstreamCalls>>

catchBlock_retries(c, k) ==
  /\ call' = [call EXCEPT ![c].attempts = @ + 1]
  /\ upstreamCalls' = upstreamCalls + 1
  /\ last' = NoReturn
  /\ UNCHANGED <<cache, pc>>

catchBlock_pending(c, k) ==
  /\ pc' = [pc EXCEPT ![c] = "pending"]
  /\ last' = NoReturn
  /\ UNCHANGED <<cache, upstreamCalls, call>>

\* lines 176-179: the catch block returns the fallback content
catchBlock(c, k) ==
  /\ Returns(c, call[c], k, getFallbackContent(call[c].options, now), "fallback")
  /\ UNCHANGED <<cache, upstreamCalls>>

\* lines 172-175: the try block stores the content and returns it
tryBlockReturns(c, k, content) ==
  /\ cache' = setCachedContent(getCacheKey(call[c].options), content)
  /\ Returns(c, call[c], k, content, "upstream")
  /\ UNCHANGED upstreamCalls

\* generateContent(o), from the call to its first await or its return
generateContentCalled(c, o, marks) ==
  /\ pc[c] = "idle"
  /\ \A d \in Callers : d < c => pc[d] # "idle"    \* a call takes the first free slot
  /\ calls < MaxCalls
  /\ calls' = calls + 1
  /\ LET cacheKey == getCacheKey(o)
         cachedContent == getCachedContent(cacheKey)
         cl == [options |-> o,
                startedAt |-> now,
                entry |-> MapGet(cache, cacheKey),
                attempts |-> 0,
                afterRef |-> /\ ref.set
                             /\ ref.key = cacheKey
                             /\ ref.clean
                             /\ now - ref.at <= cacheTTL,
                nearRef |-> /\ ref.set
                            /\ ref.clean
                            /\ now - ref.at <= cacheTTL,
                overlapped |-> \E d \in Callers :
                                 /\ pc[d] = "awaiting"
                                 /\ getCacheKey(call[d].options) = cacheKey,
                request |-> NoRequest]
     IN  /\ cache' = cachedContent.map
         /\ IF cachedContent.found
              THEN /\ Returns(c, cl, NoCompletion, cachedContent.content, "hit")
                   /\ UNCHANGED upstreamCalls
                   /\ RefChosen(marks)
            ELSE IF ~hasClient
              THEN /\ Returns(c, cl, NoCompletion, getFallbackContent(o, now), "nokey")
                   /\ UNCHANGED upstreamCalls
                   /\ RefChosen(marks)
            ELSE   /\ pc' = [pc EXCEPT ![c] = "awaiting"]
                   /\ call' = [call EXCEPT ![c] =
                        [cl EXCEPT !.attempts = 1, !.request = completionRequest(o)]]
                   /\ upstreamCalls' = upstreamCalls + 1
                   /\ ref' = RefNoted
                   /\ last' = NoReturn
  /\ stats' = NoStats
  /\ UNCHANGED <<openai, cacheTTL, limiterVars, claude, now>>

\* generateContent called by a caller of its own
generateContent(c, o, marks) ==
  /\ generateContentCalled(c, o, marks)
  /\ UNCHANGED <<manager, retry, requests>>

\* generateContent, from the settling of the upstream call to the return
generateContentResumed(c, completion, marks) ==
  /\ pc[c] = "awaiting"
  /\ LET parsed == parseCompletion(completion, now)
     IN  IF parsed.threw
           THEN catchBlock(c, completion)
           ELSE tryBlockReturns(c, completion, parsed.content)
  /\ RefChosen(marks)
  /\ calls' = calls
  /\ stats' = NoStats
  /\ UNCHANGED <<openai, cacheTTL, limiterVars, claude, now>>

\* the upstream call of such a call settles
upstreamSettles(c, completion, marks) ==
  /\ generateContentResumed(c, completion, marks)
  /\ UNCHANGED <<manager, retry, requests>>

clearCache_keepsNewest ==
  /\ cache' = IF cache = <<>> THEN <<>> ELSE <<cache[Len(cache)]>>
  /\ ref' = RefNoted
  /\ stats' = NoStats
  /\ last' = NoReturn
  /\ UNCHANGED <<openai, cacheTTL, pc, call, calls, upstreamCalls,
                 limiterVars, claude, manager, retry, requests, now>>

\* clearCache()
clearCache ==
  /\ cache' = <<>>
  /\ ref' = RefNoted
  /\ stats' = NoStats
  /\ last' = NoReturn
  /\ UNCHANGED <<openai, cacheTTL, pc, call, calls, upstreamCalls,
                 limiterVars, claude, manager, retry, requests, now>>

getCacheStats_evicts ==
  /\ cache' = SelectSeq(cache, LAMBDA e : ~isExpired(e, now))
  /\ stats' = [size |-> Len(cache'), keys |-> [i \in 1..Len(cache') |-> cache'[i].key]]
  /\ last' = NoReturn
  /\ ref' = RefNoted
  /\ UNCHANGED <<openai, cacheTTL, pc, call, calls, upstreamCalls,
                 limiterVars, claude, manager, retry, requests, now>>

\* getCacheStats()
getCacheStats ==
  /\ stats' = [size |-> Len(cache), keys |-> [i \in 1..Len(cache) |-> cache[i].key]]
  /\ last' = NoReturn
  /\ UNCHANGED <<openai, cacheTTL, cache, pc, call, calls, upstreamCalls,
                 ref, limiterVars, claude, manager, retry, requests, now>>

\* time passes
Tick ==
  /\ now < MaxTime
  /\ now' = now + 1
  /\ stats' = NoStats
  /\ last' = NoReturn
  /\ UNCHANGED <<openai, cacheTTL, cache, pc, call, calls, upstreamCalls,
                 ref, limiterVars, claude, manager, retry, requests>>

(***************************************************************************)
(* RateLimiter.  A tick of the clock is one second.  tokens counts         *)
(* sixtieths of a token, so that refillRate = requestsPerMinute / 60       *)
(* tokens per second is maxTokens sixtieths per tick and one token is      *)
(* Minute sixtieths.                                                       *)
(***************************************************************************)
Minute == 60

Min(x, y) == IF x <= y THEN x ELSE y

\* an acquire call in flight: the time it was made, the sixtieths of a token
\* it lacked after the first refill (waitTime = need / maxTokens seconds) and
\* its place in the burst
NoAcquire == [startedAt |-> -1, need |-> 0, index |-> 0]

NoAcquired == [caller |-> 0, call |-> NoAcquire, returnedAt |-> -1]

\* constructor(requestsPerMinute)
InitLimiter(requestsPerMinute) ==
  /\ maxTokens = requestsPerMinute
  /\ tokens = Minute * requestsPerMinute
  /\ lastRefill = now
  /\ acq = [c \in Callers |-> "idle"]
  /\ acqCall = [c \in Callers |-> NoAcquire]
  /\ acquires = 0
  /\ burst = 0
  /\ burstAt = -1
  /\ lastAcq = NoAcquired

\* refill(): the value of this.tokens after it
refill == Min(Minute * maxTokens, tokens + (now - lastRefill) * maxTokens)

mustWait_inclusive(t) == t <= Minute

\* if (this.tokens < 1)
mustWait(t) == t < Minute

\* the timer of sleep(waitTime) has run for waitTime or longer
timerDue(c) == (now - acqCall[c].startedAt) * maxTokens >= acqCall[c].need

\* acquire(), from the call to the sleep or, without one, to the return: what
\* it does to the limiter
acquireCalled(c) ==
  /\ acq[c] = "idle"
  /\ acquires < MaxAcquires
  /\ acquires' = acquires + 1
  /\ LET refilled == refill
         index == IF refilled = Minute * maxTokens THEN 1
                  ELSE IF burst > 0 /\ burstAt = now THEN burst + 1
                  ELSE 0
     IN  /\ burst' = index
         /\ burstAt' = IF index = 0 THEN -1 ELSE IF index = 1 THEN now ELSE burstAt
         /\ lastRefill' = now
         /\ IF mustWait(refilled)
              THEN /\ tokens' = refilled
                   /\ acq' = [acq EXCEPT ![c] = "sleeping"]
                   /\ acqCall' = [acqCall EXCEPT ![c] =
                        [startedAt |-> now, need |-> Minute - refilled, index |-> index]]
                   /\ lastAcq' = NoAcquired
              ELSE /\ tokens' = refilled - Minute
                   /\ lastAcq' = [caller |-> c,
                                  call |-> [startedAt |-> now, need |-> 0, index |-> index],
                                  returnedAt |-> now]
                   /\ UNCHANGED <<acq, acqCall>>
  /\ UNCHANGED maxTokens

\* acquire(), from the end of the sleep to the return: what it does to the
\* limiter
acquireResumed(c) ==
  /\ acq[c] = "sleeping"
  /\ timerDue(c)
  /\ tokens' = refill - Minute
  /\ lastRefill' = now
  /\ acq' = [acq EXCEPT ![c] = "idle"]
  /\ acqCall' = [acqCall EXCEPT ![c] = NoAcquire]
  /\ lastAcq' = [caller |-> c, call |-> acqCall[c], returnedAt |-> now]
  /\ UNCHANGED <<maxTokens, acquires, burst, burstAt>>

\* acquire() called on the limiter itself
acquire(c) ==
  /\ \A d \in Callers : d < c => acq[d] # "idle"   \* a call takes the first free slot
  /\ acquireCalled(c)
  /\ UNCHANGED <<clientVars, claude, manager, retry, requests, now>>

\* the sleep of an acquire() call ends
acquireWakes(c) ==
  /\ acquireResumed(c)
  /\ UNCHANGED <<clientVars, claude, manager, retry, requests, now>>

\* acquire() called in sequence: each call is made after the one before returned
acquireInTurn(c) ==
  /\ \A d \in Callers : acq[d] = "idle"
  /\ acquire(c)

(***************************************************************************)
(* ClaudeClient and its ResponseCache.  The client is taken to be          *)
(* configured with rateLimit.requestsPerMinute and cache.ttl; ttl counts   *)
(* ticks.  retryWithBackoff has no body in the source: its call is taken   *)
(* to settle as the request it wraps does.                                 *)
(***************************************************************************)
Messages == {"Vereinsdigitalisierung", "KI"}

\* CompletionParams, its optional fields absent
Params ==
  { [messages |-> m, model |-> Undefined, temperature |-> Undefined] : m \in Messages }

NoParams == [messages |-> Undefined, model |-> Undefined, temperature |-> Undefined]

\* a CompletionResponse: the reply to the request numbered id
NoResponse == [id |-> 0]

\* a complete call in flight: its argument, the time it was made, the tokens
\* it has taken from the bucket and the requests it has issued
NoComplete == [params |-> NoParams, startedAt |-> -1, spent |-> 0, attempts |-> 0]

\* a complete call that returned: "hit" from the cache, "upstream" with the
\* reply, or "threw" for a call that rejects
NoCompleted == [caller |-> 0, call |-> NoComplete, response |-> NoResponse, path |-> "none"]

\* constructor(config)
InitClaude(ttl) ==
  claude = [ttl |-> ttl,
            cache |-> <<>>,
            pc |-> [c \in Callers |-> "idle"],
            call |-> [c \in Callers |-> NoComplete],
            apiCalls |-> 0,
            last |-> NoCompleted]

\* ResponseCache.generateKey
generateKey(params) == <<params.messages, params.model, params.temperature>>

\* ResponseCache.get: the response found, and the map after the lookup
get(params) ==
  LET key == generateKey(params)
      cached == MapGet(claude.cache, key)
  IN  IF ~MapHas(claude.cache, key)
        THEN [found |-> FALSE, response |-> NoResponse, map |-> claude.cache]
      ELSE IF now - cached.timestamp > claude.ttl
        THEN [found |-> FALSE, response |-> NoResponse,
              map |-> MapDelete(claude.cache, key)]
      ELSE [found |-> TRUE, response |-> cached.content, map |-> claude.cache]

\* ResponseCache.set: the map after it
set(params, response) == MapSet(claude.cache, generateKey(params), response, now)

\* complete(params), from the call to the await of acquire()
complete(c, params) ==
  /\ claude.pc[c] = "idle"
  /\ \A d \in Callers : d < c => claude.pc[d] # "idle"   \* the first free slot
  /\ acquireCalled(c)
  /\ LET slept == acq'[c] = "sleeping"
     IN  claude' = [claude EXCEPT
           !.pc[c] = IF slept THEN "acquiring" ELSE "acquired",
           !.call[c] = [params |-> params, startedAt |-> now,
                        spent |-> IF slept THEN 0 ELSE 1, attempts |-> 0],
           !.last = NoCompleted]
  /\ UNCHANGED <<clientVars, manager, retry, requests, now>>

\* complete: the sleep inside acquire() ends and acquire() takes its token
completeWakes(c) ==
  /\ claude.pc[c] = "acquiring"
  /\ acquireResumed(c)
  /\ claude' = [claude EXCEPT !.pc[c] = "acquired",
                              !.call[c].spent = 1,
                              !.last = NoCompleted]
  /\ UNCHANGED <<clientVars, manager, retry, requests, now>>

\* complete, from the return of acquire() to the return of the cached
\* response or to the request
completeChecksCache(c) ==
  /\ claude.pc[c] = "acquired"
  /\ LET cl == claude.call[c]
         cached == get(cl.params)
     IN  IF cached.found
           THEN claude' = [claude EXCEPT
                  !.pc[c] = "idle",
                  !.call[c] = NoComplete,
                  !.last = [caller |-> c, call |-> cl,
                            response |-> cached.response, path |-> "hit"]]
           ELSE claude' = [claude EXCEPT
                  !.cache = cached.map,
                  !.pc[c] = "awaiting",
                  !.call[c].attempts = 1,
                  !.apiCalls = @ + 1,
                  !.last = NoCompleted]
  /\ lastAcq' = NoAcquired
  /\ UNCHANGED <<tokens, maxTokens, lastRefill, acq, acqCall, acquires, burst,
                 burstAt, clientVars, manager, retry, requests, now>>

\* complete, from the settling of the request to the return
completeSettles(c, resolved) ==
  /\ claude.pc[c] = "awaiting"
  /\ LET cl == claude.call[c]
         response == [id |-> claude.apiCalls]
     IN  IF resolved
           THEN claude' = [claude EXCEPT
                  !.cache = set(cl.params, response),
                  !.pc[c] = "idle",
                  !.call[c] = NoComplete,
                  !.last = [caller |-> c, call |-> cl,
                            response |-> response, path |-> "upstream"]]
           ELSE claude' = [claude EXCEPT
                  !.pc[c] = "idle",
                  !.call[c] = NoComplete,
                  !.last = [caller |-> c, call |-> cl,
                            response |-> NoResponse, path |-> "threw"]]
  /\ lastAcq' = NoAcquired
  /\ UNCHANGED <<tokens, maxTokens, lastRefill, acq, acqCall, acquires, burst,
                 burstAt, clientVars, manager, retry, requests, now>>

\* d seconds pass between the calls of a ClaudeClient
Elapses(d) ==
  /\ now + d <= MaxClock
  /\ now' = now + d
  /\ lastAcq' = NoAcquired
  /\ claude' = [claude EXCEPT !.last = NoCompleted]
  /\ UNCHANGED <<tokens, maxTokens, lastRefill, acq, acqCall, acquires, burst,
                 burstAt, clientVars, manager, retry, requests>>

\* time passes in the limiter specifications
TickLimiter ==
  /\ now < MaxClock
  /\ now' = now + 1
  /\ lastAcq' = NoAcquired
  /\ UNCHANGED <<tokens, maxTokens, lastRefill, acq, acqCall, acquires, burst,
                 burstAt, clientVars, claude, manager, retry, requests>>

\* the pauses between the calls of the ClaudeClient specification: a quarter
\* and a half of a minute
Pauses == {Minute \div 4, Minute \div 2}

(***************************************************************************)
(* The cache key as a text.  getCacheKey above yields the fields of the    *)
(* object literal of lines 35-40; JSON.stringify writes them in the order  *)
(* of the literal.  A request is here an object as a caller builds it: its *)
(* properties in the order they were set, an absent property reading as    *)
(* undefined.                                                              *)
(***************************************************************************)
\* obj[name]
Prop(obj, name) ==
  IF \E i \in 1..Len(obj) : obj[i][1] = name
    THEN obj[CHOOSE i \in 1..Len(obj) : obj[i][1] = name][2]
    ELSE Undefined

\* the options that the property reads of getCacheKey see
asOptions(obj) ==
  [topic |-> Prop(obj, "topic"), type |-> Prop(obj, "type"),
   tone |-> Prop(obj, "tone"), language |-> Prop(obj, "language"),
   maxTokens |-> 0]

\* the characters of a JSON string that are written escaped
RECURSIVE escaped(_, _)
escaped(str, i) ==
  IF i > Len(str) THEN ""
  ELSE LET ch == SubSeq(str, i, i)
       IN  (CASE ch = "\"" -> "\\\""
              [] ch = "\\" -> "\\\\"
              [] ch = "\n" -> "\\n"
              [] OTHER -> ch) \o escaped(str, i + 1)

quote_raw(str) == "\"" \o str \o "\""

\* JSON.stringify of a string
quote(str) == "\"" \o escaped(str, 1) \o "\""

\* JSON.stringify of the object literal with the fields key: a property
\* whose value is undefined is left out
JSONstringify(key) ==
  LET names == <<"topic", "type", "tone", "language">>
      present == SelectSeq(<<1, 2, 3, 4>>, LAMBDA n : key[n] # Undefined)
      member(n) == quote(names[n]) \o ":" \o quote(key[n])
      join[k \in 0..Len(present)] ==
        IF k = 0 THEN ""
        ELSE join[k - 1] \o (IF k > 1 THEN "," ELSE "") \o member(present[k])
  IN  "{" \o join[Len(present)] \o "}"

\* getCacheKey(options): the text it returns
cacheKeyText(obj) == JSONstringify(getCacheKey(asOptions(obj)))

NoRequests == [first |-> <<>>, second |-> <<>>, keys |-> <<>>]

KeyTopics == {"a", "a\",\"type\":\"b"}

KeyTypes == {"b", "c", "b\",\"type\":\"c"}

KeyTones == {Undefined, "", "professional", "academic"}

KeyLanguages == {Undefined, "de", "en"}

\* the same properties set in one order or in the opposite one, the absent
\* ones left out
RequestObjects ==
  LET forward(tp, ty, tn, lg) ==
        SelectSeq(<<<<"topic", tp>>, <<"type", ty>>, <<"tone", tn>>, <<"language", lg>>>>,
                  LAMBDA p : p[2] # Undefined)
      backward(tp, ty, tn, lg) ==
        SelectSeq(<<<<"language", lg>>, <<"tone", tn>>, <<"type", ty>>, <<"topic", tp>>>>,
                  LAMBDA p : p[2] # Undefined)
  IN  UNION { {forward(tp, ty, tn, lg), backward(tp, ty, tn, lg)} :
                tp \in KeyTopics, ty \in KeyTypes, tn \in KeyTones, lg \in KeyLanguages }

\* getCacheKey is applied to the two requests
computeKeys ==
  /\ requests.keys = <<>>
  /\ requests' = [requests EXCEPT
       !.keys = <<cacheKeyText(requests.first), cacheKeyText(requests.second)>>]
  /\ UNCHANGED <<clientVars, limiterVars, claude, manager, retry, now>>

(***************************************************************************)
(* ContentManager (contentManager.ts).  Its methods build the options and  *)
(* await contentGenerator.generateContent; the caller c of a method uses   *)
(* the slot c of the generator.                                            *)
(***************************************************************************)
\* options?: Partial<ContentGenerationOptions>, absent fields undefined
NoPartial == [tone |-> Undefined, language |-> Undefined, maxTokens |-> 0]

PartialOptions == {NoPartial, [NoPartial EXCEPT !.language = "en"]}

Categories == {"Wissen"}

\* the argument of generateContent built by a method (lines 32-38, 62-68,
\* 75-81, 88-94): type and default budget differ
managerOptions(topic, type, budget, po) ==
  [topic |-> topic,
   type |-> type,
   tone |-> OrElse(po.tone, "professional"),
   language |-> OrElse(po.language, "de"),
   maxTokens |-> IF po.maxTokens = 0 THEN budget ELSE po.maxTokens]

Letters ==
  [u \in {"A", "B", "C", "D", "E", "F", "G", "H", "I", "J", "K", "L", "M", "N",
          "O", "P", "Q", "R", "S", "T", "U", "V", "W", "X", "Y", "Z"} |->
     CASE u = "A" -> "a" [] u = "B" -> "b" [] u = "C" -> "c" [] u = "D" -> "d"
       [] u = "E" -> "e" [] u = "F" -> "f" [] u = "G" -> "g" [] u = "H" -> "h"
       [] u = "I" -> "i" [] u = "J" -> "j" [] u = "K" -> "k" [] u = "L" -> "l"
       [] u = "M" -> "m" [] u = "N" -> "n" [] u = "O" -> "o" [] u = "P" -> "p"
       [] u = "Q" -> "q" [] u = "R" -> "r" [] u = "S" -> "s" [] u = "T" -> "t"
       [] u = "U" -> "u" [] u = "V" -> "v" [] u = "W" -> "w" [] u = "X" -> "x"
       [] u = "Y" -> "y" [] u = "Z" -> "z"]

\* toLowerCase of one character (the model's texts are ASCII)
toLowerCase(ch) == IF ch \in DOMAIN Letters THEN Letters[ch] ELSE ch

SlugChars ==
  {"a", "b", "c", "d", "e", "f", "g", "h", "i", "j", "k", "l", "m", "n", "o",
   "p", "q", "r", "s", "t", "u", "v", "w", "x", "y", "z",
   "0", "1", "2", "3", "4", "5", "6", "7", "8", "9"}

\* createSlug(title): lower case, every run of other characters one "-",
\* no "-" at either end
RECURSIVE slugFrom(_, _, _)
slugFrom(title, i, gap) ==
  IF i > Len(title) THEN ""
  ELSE LET ch == toLowerCase(SubSeq(title, i, i))
       IN  IF ch \in SlugChars
             THEN (IF gap THEN "-" ELSE "") \o ch \o slugFrom(title, i + 1, FALSE)
             ELSE slugFrom(title, i + 1,
                           gap \/ \E j \in 1..(i - 1) :
                                    toLowerCase(SubSeq(title, j, j)) \in SlugChars)

createSlug(title) == slugFrom(title, 1, FALSE)

Whitespace == {" ", "\n", "\t"}

\* content.split(/\s+/).length: one more than the runs of whitespace
wordCount(content) ==
  1 + Cardinality({ i \in 1..Len(content) :
                      /\ SubSeq(content, i, i) \in Whitespace
                      /\ (i = 1 \/ SubSeq(content, i - 1, i - 1) \notin Whitespace) })

wordsPerMinute == 200

\* calculateReadingTime(content)
calculateReadingTime(content) ==
  (wordCount(content) + wordsPerMinute - 1) \div wordsPerMinute

\* `blog-${Date.now()}`
blogId(t) == <<"blog-", t>>

\* the BlogPost built at time t from the generated content (lines 40-52)
blogPost(generatedContent, category, t) ==
  [title |-> generatedContent.title,
   content |-> generatedContent.content,
   excerpt |-> generatedContent.excerpt,
   keywords |-> generatedContent.keywords,
   generatedAt |-> generatedContent.generatedAt,
   id |-> blogId(t),
   slug |-> createSlug(generatedContent.title),
   author |-> "wissen-handeln.com",
   publishedDate |-> t,
   category |-> category,
   tags |-> generatedContent.keywords,
   readingTime |-> calculateReadingTime(generatedContent.content)]

NoManagerCall ==
  [method |-> "none", category |-> Undefined, options |-> NoOptions,
   generatedContent |-> NoContent, path |-> "none"]

\* a method call that returned: for generateBlogPost the post, else the content
NoManagerReturn ==
  [caller |-> 0, method |-> "none", options |-> NoOptions, path |-> "none",
   generatedContent |-> NoContent, id |-> blogId(-1)]

InitManager ==
  manager = [blogPosts |-> <<>>,
             pc |-> [c \in Callers |-> "idle"],
             call |-> [c \in Callers |-> NoManagerCall],
             completed |-> 0,
             last |-> NoManagerReturn]


\* a method is called: it builds the options and calls generateContent, which
\* runs to its first await or to its return; the method then awaits it
managerCalls(c, method, options, category) ==
  /\ manager.pc[c] = "idle"
  /\ generateContentCalled(c, options, {FALSE})
  /\ manager' = [manager EXCEPT
       !.pc[c] = IF pc'[c] = "idle" THEN "resuming" ELSE "awaiting",
       !.call[c] = [method |-> method, category |-> category, options |-> options,
                    generatedContent |-> last'.result, path |-> last'.path],
       !.last = NoManagerReturn]

\* generateBlogPost(topic, category, options), to its await
generateBlogPost(c, topic, category, po) ==
  /\ managerCalls(c, "generateBlogPost",
                  managerOptions(topic, "blog-post", 1500, po), category)
  /\ UNCHANGED <<retry, requests>>

\* generateServiceDescription(serviceName, options), to its await
generateServiceDescription(c, serviceName, po) ==
  /\ managerCalls(c, "generateServiceDescription",
                  managerOptions(serviceName, "service-description", 1000, po), Undefined)
  /\ UNCHANGED <<retry, requests>>

\* generateAboutContent(focus, options), to its await
generateAboutContent(c, focus, po) ==
  /\ managerCalls(c, "generateAboutContent",
                  managerOptions(focus, "about-section", 1200, po), Undefined)
  /\ UNCHANGED <<retry, requests>>

\* generateCaseStudy(project, options), to its await
generateCaseStudy(c, project, po) ==
  /\ managerCalls(c, "generateCaseStudy",
                  managerOptions(project, "case-study", 1500, po), Undefined)
  /\ UNCHANGED <<retry, requests>>

\* the upstream call of the generateContent call a method awaits settles
managerSettles(c, completion) ==
  /\ manager.pc[c] = "awaiting"
  /\ generateContentResumed(c, completion, {FALSE})
  /\ manager' = [manager EXCEPT
       !.pc[c] = "resuming",
       !.call[c].generatedContent = last'.result,
       !.call[c].path = last'.path,
       !.last = NoManagerReturn]
  /\ UNCHANGED <<retry, requests>>

\* the method continues after its await: generateBlogPost builds the post and
\* stores it under its id (lines 40-55), the other methods return the content
managerResumes(c) ==
  LET cl == manager.call[c]
      post == blogPost(cl.generatedContent, cl.category, now)
      stored == cl.method = "generateBlogPost"
  IN  /\ manager.pc[c] = "resuming"
      /\ manager' = [manager EXCEPT
           !.blogPosts = IF stored THEN MapSet(@, post.id, post, now) ELSE @,
           !.completed = IF stored THEN @ + 1 ELSE @,
           !.pc[c] = "idle",
           !.call[c] = NoManagerCall,
           !.last = [caller |-> c, method |-> cl.method, options |-> cl.options,
                     path |-> cl.path, generatedContent |-> cl.generatedContent,
                     id |-> IF stored THEN post.id ELSE blogId(-1)]]
      /\ last' = NoReturn
      /\ stats' = NoStats
      /\ UNCHANGED <<openai, cacheTTL, cache, pc, call, calls, upstreamCalls, ref,
                     limiterVars, claude, retry, requests, now>>

\* the posts of the map in insertion order
values(m) == [i \in 1..Len(m) |-> m[i].content]

\* Array.prototype.sort with (a, b) => b.publishedDate - a.publishedDate: stable
RECURSIVE sortByDateDesc(_)
sortByDateDesc(posts) ==
  IF posts = <<>> THEN <<>>
  ELSE LET rest == sortByDateDesc(Tail(posts))
           p == Head(posts)
           k == Cardinality({ i \in 1..Len(rest) : rest[i].publishedDate > p.publishedDate })
       IN  SubSeq(rest, 1, k) \o <<p>> \o SubSeq(rest, k + 1, Len(rest))

\* getBlogPosts(category): what it returns
getBlogPosts(category) ==
  LET posts == values(manager.blogPosts)
  IN  IF category \notin Falsy
        THEN SelectSeq(posts, LAMBDA post : post.category = category)
        ELSE sortByDateDesc(posts)

(***************************************************************************)
(* generateWithRetry (contributing.md).  generateContent(prompt) is the    *)
(* call it wraps: each attempt resolves with a text or rejects with an     *)
(* error.  A tick of the clock is one second; delays are in milliseconds.  *)
(***************************************************************************)
Second == 1000

RECURSIVE pow2(_)
pow2(i) == IF i = 0 THEN 1 ELSE 2 * pow2(i - 1)

\* maxRetries: number = 3, the argument given as <<n>> or left out as <<>>
maxRetriesOf(arg) == IF arg = <<>> THEN 3 ELSE arg[1]

\* Math.pow(2, i) * 1000
backoff(i) == pow2(i) * Second

\* arg: the maxRetries argument as passed;
\* attempts: per attempt made, when it started and settled and how;
\* delays: the delays passed to setTimeout so far;
\* outcome: "returned" with the text of attempt value, "threw" with the error
\* of attempt value, or with 'Max retries exceeded' for value = 0
NoRetry ==
  [pc |-> "idle", arg |-> <<>>, maxRetries |-> 0, i |-> 0, attempts |-> <<>>,
   delays |-> <<>>,
   sleptAt |-> 0, outcome |-> "none", value |-> 0, settledAt |-> 0]

InitRetry == retry = NoRetry

\* the loop head for index i of a call with the fields r: the next attempt
\* starts, or the loop is over and line 1044 throws
loopHead(r, i) ==
  IF i < r.maxRetries
    THEN [r EXCEPT !.pc = "attempting", !.i = i,
                   !.attempts = Append(@, [startedAt |-> now, settledAt |-> -1,
                                           ok |-> FALSE])]
    ELSE [r EXCEPT !.pc = "done", !.i = i, !.outcome = "threw", !.value = 0,
                   !.settledAt = now]

\* generateWithRetry(prompt, maxRetries), to its first await or its throw
generateWithRetry(arg) ==
  /\ retry.pc = "idle"
  /\ retry' = loopHead([NoRetry EXCEPT !.arg = arg, !.maxRetries = maxRetriesOf(arg)], 0)
  /\ UNCHANGED <<clientVars, limiterVars, claude, manager, requests, now>>

isLastAttempt_early(r) == r.i >= r.maxRetries - 2

\* i === maxRetries - 1
isLastAttempt(r) == r.i = r.maxRetries - 1

\* the attempt in flight settles: return, rethrow, or sleep
attemptSettles(ok) ==
  /\ retry.pc = "attempting"
  /\ LET n == Len(retry.attempts)
         r == [retry EXCEPT !.attempts[n].settledAt = now, !.attempts[n].ok = ok]
     IN  retry' =
           IF ok
             THEN [r EXCEPT !.pc = "done", !.outcome = "returned", !.value = n,
                            !.settledAt = now]
           ELSE IF isLastAttempt(retry)
             THEN [r EXCEPT !.pc = "done", !.outcome = "threw", !.value = n,
                            !.settledAt = now]
           ELSE [r EXCEPT !.pc = "sleeping", !.sleptAt = now,
                          !.delays = Append(@, backoff(retry.i))]
  /\ UNCHANGED <<clientVars, limiterVars, claude, manager, requests, now>>

\* the timer of the sleep fires, not before its delay has passed, and the
\* loop continues with i + 1
backoffEnds ==
  /\ retry.pc = "sleeping"
  /\ now * Second >= retry.sleptAt * Second + retry.delays[Len(retry.delays)]
  /\ retry' = loopHead(retry, retry.i + 1)
  /\ UNCHANGED <<clientVars, limiterVars, claude, manager, requests, now>>

\* time passes while generateWithRetry runs
TickRetry ==
  /\ now < MaxWait
  /\ now' = now + 1
  /\ UNCHANGED <<clientVars, limiterVars, claude, manager, retry, requests>>

(***************************************************************************)
(* Specifications.                                                         *)
(***************************************************************************)
\* the client and a limiter configured for one request per minute, which
\* generateContent never calls
Init ==
  /\ now = 0
  /\ InitClient
  /\ InitLimiter(1)
  /\ InitClaude(1)
  /\ InitManager
  /\ InitRetry
  /\ requests = NoRequests

Next ==
  \/ \E c \in Callers, o \in Options : generateContent(c, o, {FALSE})
  \/ \E c \in Callers, k \in Completions : upstreamSettles(c, k, {FALSE})
  \/ clearCache
  \/ getCacheStats
  \/ Tick

Spec == Init /\ [][Next]_vars

\* the client, with one returned call of each behaviour chosen as the
\* reference call that later calls are compared with; the upstream request
\* fails or succeeds
PairCompletions ==
  { k \in Completions :
      \/ k.settled = "rejected" /\ k.status = 500
      \/ k.settled = "resolved" /\ k.text = [form |-> "json", value |-> FullObject] }

NextPairs ==
  \/ \E c \in Callers, o \in Options : generateContent(c, o, BOOLEAN)
  \/ \E c \in Callers, k \in PairCompletions : upstreamSettles(c, k, BOOLEAN)
  \/ clearCache
  \/ getCacheStats
  \/ Tick

SpecPairs == Init /\ [][NextPairs]_vars

\* the client called with requests of every shape a caller can pass at run
\* time: the topic empty or missing, a type outside the four supported ones,
\* the language absent, empty, supported or unsupported
AnyTopics == {"KI", "", Undefined}

AnyTypes == {"case-study", "newsletter"}

AnyLanguages == {Undefined, "", "de", "en", "fr"}

AnyOptions ==
  { [topic |-> "KI", type |-> ty, tone |-> Undefined, language |-> lg, maxTokens |-> 0]
      : ty \in AnyTypes, lg \in AnyLanguages }
  \cup
  { [topic |-> tp, type |-> "case-study", tone |-> Undefined, language |-> Undefined,
     maxTokens |-> 0] : tp \in AnyTopics }

\* the upstream request fails, or its reply is JSON with or without all keys
InputCompletions ==
  { k \in Completions :
      \/ k.settled = "rejected" /\ k.status = 500
      \/ k.settled = "resolved" /\ k.text.form = "json" /\ k.text.value.t = "object" }

\* the calls are made one after the other
NextInputs ==
  \/ \E o \in AnyOptions : generateContent(1, o, {FALSE})
  \/ \E k \in InputCompletions : upstreamSettles(1, k, {FALSE})
  \/ Tick

SpecInputs == Init /\ [][NextInputs]_vars

\* The promise of chat.completions.create settles: an upstream call that was
\* issued eventually resolves or rejects, and the continuation of the await
\* then runs to the return of generateContent.
upstreamEventuallySettles ==
  \A c \in Callers : WF_vars(\E k \in Completions : upstreamSettles(c, k, {FALSE}))

\* overlapping calls for one request, every way the upstream call can
\* settle, and the passage of time
NextLive ==
  \/ \E c \in Callers, o \in {x \in Options : x.topic = "KI" /\ x.maxTokens = 0} :
       generateContent(c, o, {FALSE})
  \/ \E c \in Callers, k \in Completions : upstreamSettles(c, k, {FALSE})
  \/ Tick

SpecLive == Init /\ [][NextLive]_vars /\ upstreamEventuallySettles

\* the ContentManager of a site without OPENAI_API_KEY: its four generating
\* methods called one after the other, with and without a language
NextManagerNoKey ==
  \/ \E topic \in Topics, category \in Categories, po \in PartialOptions :
       generateBlogPost(1, topic, category, po)
  \/ \E serviceName \in Topics, po \in PartialOptions :
       generateServiceDescription(1, serviceName, po)
  \/ \E focus \in Topics, po \in PartialOptions :
       generateAboutContent(1, focus, po)
  \/ \E project \in Topics, po \in PartialOptions :
       generateCaseStudy(1, project, po)
  \/ managerResumes(1)
  \/ Tick

\* the site's generator was constructed without OPENAI_API_KEY
InitManagerNoKey ==
  /\ Init
  /\ ~openai

SpecManagerNoKey == InitManagerNoKey /\ [][NextManagerNoKey]_vars

\* the blog of the ContentManager: posts generated one after the other, with
\* and without a language, the upstream call failing or replying with JSON
NextBlog ==
  \/ \E topic \in Topics, category \in Categories, po \in PartialOptions :
       generateBlogPost(1, topic, category, po)
  \/ \E k \in PairCompletions : managerSettles(1, k)
  \/ managerResumes(1)
  \/ Tick

SpecBlog == Init /\ [][NextBlog]_vars

\* generateWithRetry called once, with maxRetries given or left out, each
\* attempt resolving or rejecting
RetryArguments == {<<>>} \cup {<<n>> : n \in 0..MaxRetries}

NextRetry ==
  \/ \E arg \in RetryArguments : generateWithRetry(arg)
  \/ \E ok \in BOOLEAN : attemptSettles(ok)
  \/ backoffEnds
  \/ TickRetry

SpecRetry == Init /\ [][NextRetry]_vars

\* getCacheKey applied to every pair of requests
InitKeys ==
  /\ now = 0
  /\ InitClient
  /\ openai
  /\ InitLimiter(1)
  /\ InitClaude(1)
  /\ InitManager
  /\ InitRetry
  /\ \E a \in RequestObjects, b \in RequestObjects :
       requests = [first |-> a, second |-> b, keys |-> <<>>]

NextKeys == computeKeys

SpecKeys == InitKeys /\ [][NextKeys]_vars

\* a client constructed without OPENAI_API_KEY, called with requests of every
\* shape, one returned call chosen as the reference call
InitNoKey ==
  /\ Init
  /\ ~openai

NextNoKey ==
  \/ \E c \in Callers, o \in AnyOptions : generateContent(c, o, BOOLEAN)
  \/ clearCache
  \/ getCacheStats
  \/ Tick

SpecNoKey == InitNoKey /\ [][NextNoKey]_vars

\* a limiter of any configured rate, its callers taking turns
InitSeq ==
  /\ now = 0
  /\ InitClient
  /\ openai
  /\ \E n \in 1..MaxRate : InitLimiter(n)
  /\ InitClaude(1)
  /\ InitManager
  /\ InitRetry
  /\ requests = NoRequests

NextSeq ==
  \/ \E c \in Callers : acquireInTurn(c)
  \/ \E c \in Callers : acquireWakes(c)
  \/ TickLimiter

SpecLimiter == InitSeq /\ [][NextSeq]_vars

\* the same limiter, its callers calling while others sleep
NextOverlap ==
  \/ \E c \in Callers : acquire(c)
  \/ \E c \in Callers : acquireWakes(c)
  \/ TickLimiter

SpecOverlap == InitSeq /\ [][NextOverlap]_vars

\* a ClaudeClient of any configured rate and ttl
InitComplete ==
  /\ now = 0
  /\ InitClient
  /\ openai
  /\ \E n \in 1..MaxRate : InitLimiter(n)
  /\ \E ttl \in 1..MaxTTL : InitClaude(ttl)
  /\ InitManager
  /\ InitRetry
  /\ requests = NoRequests

NextComplete ==
  \/ \E c \in Callers, params \in Params : complete(c, params)
  \/ \E c \in Callers : completeWakes(c)
  \/ \E c \in Callers : completeChecksCache(c)
  \/ \E c \in Callers, resolved \in BOOLEAN : completeSettles(c, resolved)
  \/ \E d \in Pauses : Elapses(d)

SpecClaude == InitComplete /\ [][NextComplete]_vars

(***************************************************************************)
(* Properties.  lastKey is the fingerprint of the call that just returned, *)
(* lastEntry what the map holds for it now.                                *)
(***************************************************************************)
lastKey == getCacheKey(last.call.options)

lastEntry == MapGet(cache, lastKey)

returned == last.caller # 0

\* the map held an entry for the call's key when the call was made, and
\* now - storedAt <= cacheTTL held of it (Fresh) or not (Stale)
Fresh(cl) == cl.entry # NoEntry /\ cl.startedAt - cl.entry.timestamp <= cacheTTL

Stale(cl) == cl.entry # NoEntry /\ cl.startedAt - cl.entry.timestamp > cacheTTL

\* the expected failure modes of the upstream call: it throws, the reply is
\* empty, or the reply is not parseable JSON
FailureForms == {"missing", "empty", "prose", "wrapped"}

Failed(k) ==
  \/ k.settled = "rejected"
  \/ k.settled = "resolved" /\ k.text.form \in FailureForms

\* C1: generateContent never rejects for an expected failure mode: a call made
\* without a credential, or whose upstream request throws or resolves with an
\* empty or unparseable reply, returns the fallback content of its request.
C1_NeverRaises ==
  returned =>
    /\ last.path # "threw"
    /\ ~openai \/ Failed(last.completion) =>
         /\ last.path \in {"nokey", "fallback"}
         /\ last.result = getFallbackContent(last.call.options, now)

C1_Witness ==
  /\ last.path = "fallback"
  /\ last.completion.settled = "resolved"
  /\ last.completion.text.form = "prose"

C6_HitSpendsNoToken ==
  claude.last.path = "hit" =>
    /\ claude.last.call.spent = 0
    /\ claude.last.call.attempts = 0

\* C6, for generateContent: a call made when the map holds an entry of its
\* fingerprint with now - storedAt <= cacheTTL returns at once with the stored
\* content, and leaves the map, the limiter and the count of upstream calls
\* as they were.
C6_HitNoSideEffects ==
  [][ /\ \A c \in Callers : pc'[c] = "awaiting" => ~Fresh(call'[c])
      /\ (last'.caller # 0 /\ Fresh(last'.call)) =>
           /\ last'.path = "hit"
           /\ last'.result = last'.call.entry.content
           /\ cache' = cache
           /\ upstreamCalls' = upstreamCalls
           /\ <<tokens, lastRefill, maxTokens>>' = <<tokens, lastRefill, maxTokens>> ]_vars

C6_Witness ==
  /\ last.path = "hit"
  /\ Fresh(last.call)
  /\ now - last.call.entry.timestamp = cacheTTL
  /\ upstreamCalls = 1

\* C7: a client constructed without a credential never issues an upstream
\* call, never awaits one and never touches the rate limiter, whatever
\* generateContent, clearCache and getCacheStats calls are made.
C7_PermanentFallback ==
  ~openai =>
    /\ upstreamCalls = 0
    /\ \A c \in Callers : pc[c] = "idle"
    /\ returned => last.path = "nokey"
    /\ tokens = Minute * maxTokens
    /\ lastRefill = 0
    /\ acquires = 0

C7_Witness ==
  /\ ~openai
  /\ last.path = "nokey"
  /\ calls = MaxCalls
  /\ now > 0

\* C8: the bucket never holds less than nothing or more than maxTokens, in
\* any state of any sequence of acquire calls and passages of time, the
\* sleeping states included.
C8_TokensInRange ==
  /\ 0 <= tokens
  /\ tokens <= Minute * maxTokens

\* C9: with the limiter configured for maxTokens requests per minute, at most
\* maxTokens upstream calls are issued in any window of 60 seconds.  Every
\* call of a behaviour that has not lasted a minute lies in one window.
C9_RateBounded ==
  now < Minute => upstreamCalls <= maxTokens

\* C10: of maxTokens + 1 acquire calls made back to back on a full bucket,
\* the first maxTokens return without sleeping and the next one sleeps for
\* waitTime = 60 / maxTokens seconds (need = one whole token) before it returns.
C10_Boundedness ==
  /\ lastAcq.caller # 0 /\ lastAcq.call.index \in 1..maxTokens =>
       /\ lastAcq.call.need = 0
       /\ lastAcq.returnedAt = lastAcq.call.startedAt
  /\ \A c \in Callers :
       acq[c] = "sleeping" /\ acqCall[c].index = maxTokens + 1 =>
         acqCall[c].need = Minute
  /\ lastAcq.caller # 0 /\ lastAcq.call.index = maxTokens + 1 =>
       /\ lastAcq.call.need = Minute
       /\ (lastAcq.returnedAt - lastAcq.call.startedAt) * maxTokens >= Minute
  /\ burst = maxTokens + 1 /\ burstAt = now =>
       \E c \in Callers : acq[c] = "sleeping" /\ acqCall[c].index = burst

C10_Witness ==
  /\ lastAcq.caller # 0
  /\ lastAcq.call.index = maxTokens + 1
  /\ maxTokens > 1
  /\ (lastAcq.returnedAt - lastAcq.call.startedAt) * maxTokens = Minute

\* C11: when acquire calls overlap at the sleep, every call that returns has
\* taken a whole token that was in the bucket: the bucket is not overdrawn
\* by the return.
C11_NoDoubleSpend ==
  lastAcq.caller # 0 => tokens >= 0

\* the two requests agree on topic, type, tone and language and differ in
\* maxTokens
DifferInBudgetOnly(o1, o2) ==
  /\ o1.topic = o2.topic
  /\ o1.type = o2.type
  /\ o1.tone = o2.tone
  /\ o1.language = o2.language
  /\ o1.maxTokens # o2.maxTokens

C13_ClearCache ==
  [][ /\ clearCache =>
           /\ cache' = <<>>
           /\ cache = <<>> =>
                <<cache, openai, cacheTTL, pc, call, calls, upstreamCalls>>'
                  = <<cache, openai, cacheTTL, pc, call, calls, upstreamCalls>>
      /\ (cache = <<>> /\ getCacheStats) => stats' = [size |-> 0, keys |-> <<>>]
      /\ (cache = <<>> /\ calls' = calls + 1) => last'.path # "hit" ]_vars

\* a result was stored, clearCache removed it, and getCacheStats has just
\* reported the empty map
C13_Witness ==
  /\ ref.set
  /\ ref.path = "upstream"
  /\ ~ref.clean
  /\ calls = 1
  /\ cache = <<>>
  /\ stats = [size |-> 0, keys |-> <<>>]

\* C14: getCacheStats changes nothing of the client, expired entries stay, and
\* it returns the number of entries of the map and exactly their keys.
C14_StatsReadOnly ==
  [][ stats' # NoStats =>
        /\ <<cache, openai, cacheTTL, pc, call, calls, upstreamCalls>>'
             = <<cache, openai, cacheTTL, pc, call, calls, upstreamCalls>>
        /\ stats'.size = Len(cache)
        /\ Len(stats'.keys) = Len(cache)
        /\ {stats'.keys[i] : i \in 1..Len(stats'.keys)} = MapKeys(cache) ]_vars

\* getCacheStats has just reported a map that holds an expired entry
C14_Witness ==
  /\ stats # NoStats
  /\ stats.size = Len(cache)
  /\ \E i \in 1..Len(cache) : now - cache[i].timestamp > cacheTTL

\* a GeneratedContent without its generatedAt
Body(r) ==
  [title |-> r.title, content |-> r.content, excerpt |-> r.excerpt,
   keywords |-> r.keywords]

SupportedTypes == {"blog-post", "service-description", "about-section", "case-study"}

\* a GeneratedContent that has all its fields
HasAllFields(r) ==
  /\ r.title # Undefined
  /\ r.content # Undefined
  /\ r.excerpt # Undefined
  /\ r.keywords # Undefined

\* a well-formed GeneratedContent: title, content and excerpt are non-empty
\* and there are exactly 5 keywords
WellFormed(r) ==
  /\ r.title \notin Falsy
  /\ r.content \notin Falsy
  /\ r.excerpt \notin Falsy
  /\ r.keywords # Undefined
  /\ Len(r.keywords) = 5

\* C16: a call whose type is none of the four supported ones does not reject
\* and returns a well-formed GeneratedContent.
C16_UnknownTypeWellFormed ==
  returned /\ last.call.options.type \notin SupportedTypes =>
    /\ last.path # "threw"
    /\ WellFormed(last.result)

\* C17: a call whose topic is empty or missing rejects, has issued no upstream
\* request and has stored nothing.
C17_EmptyTopicRaises ==
  returned /\ last.call.options.topic \in {"", Undefined} =>
    /\ last.path = "threw"
    /\ last.call.attempts = 0
    /\ ~MapHas(cache, lastKey)

\* C18: a call whose upstream reply is JSON that lacks one of title, content,
\* excerpt, keywords returns the fallback content, and no GeneratedContent
\* with a missing field is returned or held by the cache.
C18_SchemaMismatchFallsBack ==
  /\ returned /\ last.completion.settled = "resolved"
              /\ last.completion.text = [form |-> "json", value |-> PartialObject] =>
       /\ last.path = "fallback"
       /\ last.result = getFallbackContent(last.call.options, now)
  /\ returned => HasAllFields(last.result)
  /\ \A i \in 1..Len(cache) : HasAllFields(cache[i].content)

\* the request o with its language replaced by lg
handledAs(o, lg) == [o EXCEPT !.language = lg]

\* the returned call produced its result from the fallback templates
fellBack == returned /\ last.path \in {"nokey", "fallback"}

\* the returned call sent a request upstream
prompted == returned /\ last.call.request # NoRequest

\* the fallback content, the system prompt and the user prompt of the returned
\* call are those of the same request made in language f, s and u
languagesUsed(f, s, u) ==
  LET o == last.call.options
  IN  /\ fellBack => Body(last.result) = Body(getFallbackContent(handledAs(o, f), now))
      /\ prompted =>
           /\ last.call.request.system = getSystemPrompt(o.type, s)
           /\ last.call.request.user = getUserPrompt(handledAs(o, u))

C21_FallbackNamesTopic ==
  LET r == manager.last
      includes(s, t) ==
        \E i \in 1..(Len(s) - Len(t) + 1) : SubSeq(s, i, i + Len(t) - 1) = t
  IN  /\ r.caller # 0
      /\ ~openai
      /\ r.options.topic \notin {"", Undefined}
      /\ r.options.language = "de"
      => /\ includes(r.generatedContent.title, r.options.topic)
         /\ r.generatedContent.content \notin {"", Undefined}
         /\ includes(r.generatedContent.content, "#")

C21_Witness ==
  /\ ~openai
  /\ manager.last.method = "generateServiceDescription"
  /\ manager.last.options =
       [topic |-> "Vereinsdigitalisierung", type |-> "service-description",
        tone |-> "professional", language |-> "de", maxTokens |-> 1000]
  /\ manager.last.path = "nokey"
  /\ manager.last.generatedContent.title = "Vereinsdigitalisierung - Professionelle Beratung"

\* C22: the acquire calls made are as many as the upstream completion
\* requests issued, and every generateContent call that awaits its upstream
\* request has acquired a token for it.
C22_TokenPerUpstreamCall ==
  /\ acquires = upstreamCalls
  /\ \A c \in Callers : pc[c] = "awaiting" => acquires >= call[c].attempts

\* C23: a call with a type outside the four supported ones that goes
\* upstream sends the blog-post system prompt of the request's language and
\* the user prompt of a blog-post request.
C23_UnknownTypeUsesBlogPost ==
  prompted /\ last.call.options.type \notin SupportedTypes =>
    LET o == last.call.options
    IN  /\ last.call.request.system =
             getSystemPrompt("blog-post", OrElse(o.language, "de"))
        /\ last.call.request.user = getUserPrompt([o EXCEPT !.type = "blog-post"])

\* the fingerprints of the generateContent calls that act in a step: the call
\* that returns in it and the call that reaches its await in it
lookedUp ==
  (IF last'.caller # 0 THEN {getCacheKey(last'.call.options)} ELSE {})
  \cup {getCacheKey(call'[c].options) : c \in {d \in Callers : pc[d] = "idle" /\ pc'[d] = "awaiting"}}

\* C24: in every step every entry of the cache stays as it is, unless the
\* step is clearCache, or a generateContent call for the entry's own
\* fingerprint that finds now - timestamp > cacheTTL and deletes it, or the
\* return of a call for the entry's own fingerprint that stores its upstream
\* result in its place.  A call that finds an entry with now - timestamp <=
\* cacheTTL, the age cacheTTL included, returns its content and leaves it.
C24_LazyEviction ==
  [][ /\ \A i \in 1..Len(cache) :
           LET e == cache[i]
           IN  \/ \E j \in 1..Len(cache') : cache'[j] = e
               \/ clearCache
               \/ /\ calls' = calls + 1
                  /\ e.key \in lookedUp
                  /\ now - e.timestamp > cacheTTL
                  /\ ~MapHas(cache', e.key)
               \/ /\ calls' = calls
                  /\ last'.path = "upstream"
                  /\ e.key = getCacheKey(last'.call.options)
                  /\ MapGet(cache', e.key) =
                       [key |-> e.key, content |-> last'.result, timestamp |-> now]
      /\ \A o \in Options :
           /\ calls' = calls + 1
           /\ lookedUp = {getCacheKey(o)}
           /\ MapHas(cache, getCacheKey(o))
           /\ now - MapGet(cache, getCacheKey(o)).timestamp <= cacheTTL
           => /\ last'.path = "hit"
              /\ last'.result = MapGet(cache, getCacheKey(o)).content
              /\ cache' = cache ]_vars

\* a call has just returned the content of an entry of age cacheTTL, which
\* is still in the cache
C24_Witness ==
  /\ returned
  /\ last.path = "hit"
  /\ now - last.call.entry.timestamp = cacheTTL
  /\ MapGet(cache, lastKey) = last.call.entry

\* C25: an acquire call sleeps only if less than one token is in the bucket
\* after its refill, it then sleeps for (1 - tokens) / (maxTokens / 60)
\* seconds, never for more than 60 / maxTokens seconds, and a call that finds
\* a whole token returns at once.
C25_BoundedWait ==
  /\ \A c \in Callers :
       acq[c] = "sleeping" =>
         /\ acqCall[c].need > 0
         /\ acqCall[c].need <= Minute
  /\ lastAcq.caller # 0 /\ lastAcq.call.need = 0 =>
       lastAcq.returnedAt = lastAcq.call.startedAt

\* the tuple (topic, contentType, tone or 'professional', language or 'de')
\* of a request
normalized(obj) ==
  <<Prop(obj, "topic"), Prop(obj, "type"),
    IF Prop(obj, "tone") \in Falsy THEN "professional" ELSE Prop(obj, "tone"),
    IF Prop(obj, "language") \in Falsy THEN "de" ELSE Prop(obj, "language")>>

\* C26: two requests get the same cache key text exactly if their normalized
\* tuples are equal, in whatever order their properties were set and whether
\* a default was given or left out.
C26_KeyIffNormalized ==
  requests.keys # <<>> =>
    (requests.keys[1] = requests.keys[2]
       <=> normalized(requests.first) = normalized(requests.second))

\* one key for two requests that differ in the order of their properties and
\* in a default given by one and left out by the other
C26_Witness ==
  /\ requests.keys # <<>>
  /\ requests.keys[1] = requests.keys[2]
  /\ Len(requests.first) = 4
  /\ Len(requests.second) = 2
  /\ requests.first[1][1] = "language"
  /\ requests.second[1][1] = "topic"
  /\ Prop(requests.first, "topic") = "a\",\"type\":\"b"

\* C27: a call whose upstream reply is a JSON object with the four keys
\* surrounded by prose returns the content of that object, stamped with the
\* time of the return, and not the fallback content.
C27_LocatesWrappedJSON ==
  /\ returned
  /\ last.completion.settled = "resolved"
  /\ last.completion.text = [form |-> "wrapped", value |-> FullObject]
  => /\ last.path = "upstream"
     /\ last.result = [title |-> FullObject.title, content |-> FullObject.content,
                       excerpt |-> FullObject.excerpt, keywords |-> FullObject.keywords,
                       generatedAt |-> now]

\* the entries of map m under key k
entriesOf(m, k) == {i \in 1..Len(m) : m[i].key = k}

\* the entries of map m under other keys than k
othersOf(m, k) == SelectSeq(m, LAMBDA e : e.key # k)

\* the call of caller c and a call for the same fingerprint overlap: c's call
\* started while the other awaited the upstream call, or the other way round
overlapping(c) ==
  /\ pc[c] = "awaiting"
  /\ \/ call[c].overlapped
     \/ \E d \in Callers \ {c} :
          /\ pc[d] = "awaiting"
          /\ call[d].overlapped
          /\ getCacheKey(call[d].options) = getCacheKey(call[c].options)

C29_RetryWithBackoff ==
  LET n == Len(retry.attempts)
      limit == IF retry.arg = <<>> THEN 3 ELSE retry.arg[1]
  IN  retry.pc # "idle" =>
        /\ n <= limit
        /\ \A k \in 1..(n - 1) : ~retry.attempts[k].ok
        /\ \A k \in 1..Len(retry.delays) :
             /\ retry.delays[k] = 1000 * pow2(k - 1)
             /\ k < n =>
                  retry.attempts[k + 1].startedAt * 1000
                    >= retry.attempts[k].settledAt * 1000 + retry.delays[k]
        /\ retry.pc = "attempting" => Len(retry.delays) = n - 1
        /\ retry.pc = "sleeping" => Len(retry.delays) = n /\ n < limit
        /\ retry.outcome = "returned" =>
             /\ retry.value = n
             /\ retry.attempts[n].ok
             /\ retry.settledAt = retry.attempts[n].settledAt
             /\ Len(retry.delays) = n - 1
        /\ retry.outcome = "threw" /\ limit > 0 =>
             /\ n = limit
             /\ retry.value = n
             /\ ~retry.attempts[n].ok
             /\ retry.settledAt = retry.attempts[n].settledAt
             /\ Len(retry.delays) = n - 1

\* called without maxRetries, the third attempt has failed, after sleeps of
\* 1000 and 2000 ms, and its error was thrown
C29_Witness ==
  /\ retry.arg = <<>>
  /\ retry.outcome = "threw"
  /\ retry.value = 3
  /\ retry.delays = <<1000, 2000>>
  /\ retry.settledAt = retry.attempts[3].settledAt

\* C30: every completed generateBlogPost call has added a post of its own:
\* getBlogPosts() returns as many posts as calls have completed, under ids
\* that differ from one another.
C30_PostsNeverOverwritten ==
  LET posts == getBlogPosts(Undefined)
  IN  /\ Len(posts) = manager.completed
      /\ \A i, j \in 1..Len(posts) : posts[i].id = posts[j].id => i = j

====
